---- MODULE Spec2Model ----
(***************************************************************************)
(* FluidBackground (src/src/assets/fluid-bg.ts): the canvas blob engine.   *)
(*                                                                         *)
(* Numbers are fixed point.  Lengths and coordinates are whole CSS pixels  *)
(* (a fractional result is floored), times are milliseconds, alpha,        *)
(* opacity and the coverage threshold are percent, the pointer, easing     *)
(* fractions and breathing multipliers are per-mille, drift and breathing  *)
(* speeds are in 1/40 cycle per second, and an angle is a phase in 1/3200  *)
(* of a cycle looked up in an 80-entry sine table.                         *)
(***************************************************************************)
EXTENDS Integers, Sequences, FiniteSets, TLC

\* ---------------------------------------------------------------- bounds
\* number of host calls and host events explored after construction
MaxOps == 2
\* the same, in the runs of the scheduler alone and of the registry alone
MaxSchedOps == 5
MaxBlobOps == 3
\* number of clock ticks explored
MaxTicks == 3
\* number of identifiers addBlob may generate
MaxIdSeq == 2
\* the host calls and the ticks explored of a transition
MaxEaseOps == 2
MaxEaseTicks == 4
\* the host calls and the ticks explored of a pair of blobs
MaxPairOps == 2
MaxPairTicks == 3
\* the longest list of rectangles mergeRects is applied to
MaxRects == 3

\* ------------------------------------------------------ program constants
\* one clock tick, in milliseconds (the granularity of timestamps)
TickMs == 125
MinDiamPx == 32
MergeTolerance == 2
DefaultDamagePaddingPx == 12
DefaultFullRedrawThreshold == 55
DefaultMaxDirtyRects == 16
DefaultMaxDpr == 2
\* lerp(s.px, s.tx, 0.1): the pointer moves one tenth of the way
PointerLerpDiv == 10
\* the result of parseFloat on a string with no numeric prefix
NaN == -999999

\* ------------------------------------------------------------ arithmetic
Min(a, b) == IF a < b THEN a ELSE b
Max(a, b) == IF a > b THEN a ELSE b

clamp(v, a, b) == Min(b, Max(a, v))

\* lerp with a per-mille parameter t
lerp(a, b, t) == a + ((b - a) * t) \div 1000

\* Easings.easeInOutQuad on a per-mille fraction
easeInOutQuad(t) ==
    IF t < 500 THEN (2 * t * t) \div 1000
    ELSE 1000 - ((2000 - 2 * t) * (2000 - 2 * t)) \div 2000

SinTab ==
    << 0, 78, 156, 233, 309, 383, 454, 522, 588, 649, 707, 760, 809, 853,
       891, 924, 951, 972, 988, 997, 1000, 997, 988, 972, 951, 924, 891,
       853, 809, 760, 707, 649, 588, 522, 454, 383, 309, 233, 156, 78, 0,
       -78, -156, -233, -309, -383, -454, -522, -588, -649, -707, -760,
       -809, -853, -891, -924, -951, -972, -988, -997, -1000, -997, -988,
       -972, -951, -924, -891, -853, -809, -760, -707, -649, -588, -522,
       -454, -383, -309, -233, -156, -78 >>

\* Math.sin (per-mille) of a phase given in 1/3200 of a cycle
Sin(ph) == SinTab[((ph % 3200) \div 40) + 1]
\* Math.cos: the sine a quarter cycle ahead
Cos(ph) == Sin(ph + 800)

\* ----------------------------------------------------------- unit resolver
\* A unit value is [n, u]: u = "num" for a raw number n, otherwise the
\* string's suffix ("" for none) and n = parseFloat of the string (NaN when
\* it has no numeric prefix).
Num(n) == [n |-> n, u |-> "num"]
Str(n, u) == [n |-> n, u |-> u]

Dims(s) == [w |-> s.w, h |-> s.h, vMax |-> s.vMax]

\* (x) * (parseFloat(s) / 100), NaN-propagating
PctOf(base, n) == IF n = NaN THEN NaN ELSE (base * n) \div 100

\* a resolver that takes a percentage of the height unless the axis is x
unitToPxOfHeight(v, dims, axis) ==
    IF v.u = "num" THEN v.n
    ELSE IF v.u = "px" THEN v.n
    ELSE IF v.u = "%" THEN PctOf(IF axis = "x" THEN dims.w ELSE dims.h, v.n)
    ELSE IF v.u = "vw" THEN PctOf(dims.w, v.n)
    ELSE IF v.u = "vh" THEN PctOf(dims.h, v.n)
    ELSE IF v.u = "vmax" THEN PctOf(dims.vMax, v.n)
    ELSE IF v.n = NaN THEN 0 ELSE v.n

unitToPx(v, dims, axis) ==
    IF v.u = "num" THEN v.n
    ELSE IF v.u = "px" THEN v.n
    ELSE IF v.u = "%" THEN PctOf(IF axis = "y" THEN dims.h ELSE dims.w, v.n)
    ELSE IF v.u = "vw" THEN PctOf(dims.w, v.n)
    ELSE IF v.u = "vh" THEN PctOf(dims.h, v.n)
    ELSE IF v.u = "vmax" THEN PctOf(dims.vMax, v.n)
    ELSE IF v.n = NaN THEN 0 ELSE v.n

\* A center is a pair of unit values, or (fn = TRUE) a function of the
\* dimensions; the one position function modelled is "the middle of the
\* viewport".
resolveCenter(center, dims) ==
    IF center.fn
    THEN [x |-> dims.w \div 2, y |-> dims.h \div 2]
    ELSE [x |-> unitToPx(center.x, dims, "x"),
          y |-> unitToPx(center.y, dims, "y")]

\* ------------------------------------------------------ dirty-rect helpers
Rect(x, y, w, h) == [x |-> x, y |-> y, w |-> w, h |-> h]

inflateRect(r, pad) == Rect(r.x - pad, r.y - pad, r.w + pad * 2, r.h + pad * 2)

\* an overlap test that looks at the horizontal extent alone
intersectAcross(a, b) ==
    ~(a.x + a.w <= b.x \/ b.x + b.w <= a.x)

intersect(a, b) ==
    ~(a.x + a.w <= b.x \/ b.x + b.w <= a.x \/ a.y + a.h <= b.y \/ b.y + b.h <= a.y)

\* a union that spans the larger width and the larger height from the
\* top-left corner
unionOfSizes(a, b) ==
    Rect(Min(a.x, b.x), Min(a.y, b.y), Max(a.w, b.w), Max(a.h, b.h))

union(a, b) ==
    LET x == Min(a.x, b.x)
        y == Min(a.y, b.y)
        r == Max(a.x + a.w, b.x + b.w)
        btm == Max(a.y + a.h, b.y + b.h)
    IN Rect(x, y, r - x, btm - y)

\* work.splice(i, 1)
Splice(work, i) == SubSeq(work, 1, i - 1) \o SubSeq(work, i + 1, Len(work))

\* the for loop of mergeRects: scan work from index i, restarting after a union
RECURSIVE MergeScan(_, _, _)
MergeScan(cur, work, i) ==
    IF i > Len(work) THEN <<cur, work>>
    ELSE IF intersect(cur, work[i])
         THEN MergeScan(union(cur, work[i]), Splice(work, i), 1)
         ELSE MergeScan(cur, work, i + 1)

\* the while loop of mergeRects
RECURSIVE MergeLoop(_, _)
MergeLoop(work, out) ==
    IF work = <<>> THEN out
    ELSE LET r == MergeScan(work[Len(work)], SubSeq(work, 1, Len(work) - 1), 1)
         IN MergeLoop(r[2], Append(out, r[1]))

mergeRects(rects, tolerance) ==
    IF Len(rects) <= 1 THEN rects
    ELSE LET work == [i \in 1..Len(rects) |-> inflateRect(rects[i], tolerance)]
             out == MergeLoop(work, <<>>)
         IN [i \in 1..Len(out) |-> inflateRect(out[i], -tolerance)]

\* a contains b
Contains(a, b) ==
    a.x <= b.x /\ a.y <= b.y /\ b.x + b.w <= a.x + a.w /\ b.y + b.h <= a.y + a.h

\* every point of f lies in some rectangle of the sequence rects
Covered(f, rects) ==
    LET xs == {f.x} \cup {rects[i].x : i \in 1..Len(rects)}
                    \cup {rects[i].x + rects[i].w : i \in 1..Len(rects)}
        ys == {f.y} \cup {rects[i].y : i \in 1..Len(rects)}
                    \cup {rects[i].y + rects[i].h : i \in 1..Len(rects)}
    IN \A x \in xs, y \in ys :
          (f.x <= x /\ x < f.x + f.w /\ f.y <= y /\ y < f.y + f.h)
          => \E i \in 1..Len(rects) :
                /\ rects[i].x <= x /\ x < rects[i].x + rects[i].w
                /\ rects[i].y <= y /\ y < rects[i].y + rects[i].h

\* ------------------------------------------------------------- nullables
Null == <<>>
Some(v) == <<v>>
\* v ?? d
Opt(v, d) == IF v = Null THEN d ELSE v[1]

\* ------------------------------------------------------------------ state
VARIABLES
    phase,              \* "none" before the constructor ran, "live" after, "threw" when it threw
    state,              \* this.state
    blobs,              \* this._blobs, in insertion order
    idSeq,              \* this._idSeq
    needRebuildStatic,  \* this._needRebuildStatic
    raf,                \* this._raf and the browser's callback list
    lastFrameTs,        \* this._lastFrameTs
    pointerEnabled,     \* this._pointerEnabled
    ctx,                \* this.ctx is not null
    staticCtx,          \* this._staticCtx is not null
    listeners,          \* the engine's listeners the window and document hold
    canvas,             \* the live surface
    staticLayer,        \* this._staticLayer
    win,                \* window.innerWidth / innerHeight
    devicePixelRatio,   \* window.devicePixelRatio
    prefersReduce,      \* matchMedia("(prefers-reduced-motion: reduce)").matches
    hidden,             \* document.hidden
    now,                \* performance.now()
    counts,             \* how often each drawing routine has run
    halted,             \* stop() has run and start() has not been called since
    disposed,           \* destroy() has run
    quiet,              \* "default" / "explicit" (the autoStart option given) while only
                        \* visibility changes have followed the constructor, else "no"
    ops,                \* host calls and events still to explore
    horizon,            \* the latest time, in ticks, a frame callback is explored at
    probe,              \* a helper function's arguments and, once it was applied, its
                        \* result; Null in the runs of the engine
    wasRunning,         \* state.running when the document was last hidden
    last                \* what the last operation was and did

vars == << phase, state, blobs, idSeq, needRebuildStatic, raf, lastFrameTs,
           pointerEnabled, ctx, staticCtx, listeners, canvas, staticLayer,
           win, devicePixelRatio, prefersReduce, hidden, now, counts, halted,
           disposed, quiet, ops, horizon, probe, wasRunning, last >>

\* the engine object: the fields the methods read and write
Self ==
    [ state |-> state, blobs |-> blobs, idSeq |-> idSeq,
      needRebuildStatic |-> needRebuildStatic, raf |-> raf,
      lastFrameTs |-> lastFrameTs, pointerEnabled |-> pointerEnabled,
      ctx |-> ctx, staticCtx |-> staticCtx, listeners |-> listeners,
      canvas |-> canvas, staticLayer |-> staticLayer, counts |-> counts,
      halted |-> halted ]

\* the engine object after a method returned
Commit(e) ==
    /\ state' = e.state
    /\ blobs' = e.blobs
    /\ idSeq' = e.idSeq
    /\ needRebuildStatic' = e.needRebuildStatic
    /\ raf' = e.raf
    /\ lastFrameTs' = e.lastFrameTs
    /\ pointerEnabled' = e.pointerEnabled
    /\ ctx' = e.ctx
    /\ staticCtx' = e.staticCtx
    /\ listeners' = e.listeners
    /\ canvas' = e.canvas
    /\ staticLayer' = e.staticLayer
    /\ counts' = e.counts
    /\ halted' = e.halted

\* ------------------------------------------------------- registry helpers
Ids(bs) == {bs[i].id : i \in 1..Len(bs)}
Has(bs, id) == id \in Ids(bs)
Idx(bs, id) == CHOOSE i \in 1..Len(bs) : bs[i].id = id
Get(bs, id) == bs[Idx(bs, id)]
\* Map.set: a known key keeps its place, a new key goes last
MapSet(bs, b) ==
    IF Has(bs, b.id) THEN [bs EXCEPT ![Idx(bs, b.id)] = b] ELSE Append(bs, b)
\* Map.delete
MapDelete(bs, id) == Splice(bs, Idx(bs, id))

\* ------------------------------------------------ requestAnimationFrame
\* raf.live: the callback this._raf names is still to run; raf.orphans: the
\* callbacks still to run that this._raf no longer names
requestAnimationFrame(r) ==
    [live |-> TRUE, orphans |-> r.orphans + (IF r.live THEN 1 ELSE 0)]
cancelAnimationFrame(r) == [r EXCEPT !.live = FALSE]
Pending(r) == (IF r.live THEN 1 ELSE 0) + r.orphans

\* ---------------------------------------------------------------- sprites
\* _rebuildSprite: the blob with its pixel diameter and sprite rebuilt; a
\* sprite is its side in device pixels and the inputs it was painted from
rebuildSprite(s, b) ==
    LET dpx == unitToPx(b.diameter, Dims(s), "vmax")
        diamPx == Max(MinDiamPx, dpx)
        pad == (s.blurPx * s.dpr) * 2
        size == diamPx * s.dpr + pad
    IN [b EXCEPT !.diamPx = diamPx,
                 !.sprite = Some([size |-> size, diamPx |-> diamPx,
                                  layers |-> b.layers, blurPx |-> s.blurPx,
                                  dpr |-> s.dpr])]

\* for (const b of this._blobs.values()) this._rebuildSprite(b)
rebuildSprites(s, bs) == [i \in 1..Len(bs) |-> rebuildSprite(s, bs[i])]

\* ------------------------------------------------------------- classifier
\* a classifier that looks at the drift speed alone
classifySpeedOnly(b) ==
    [b EXCEPT !.static = /\ b.parallaxScale = 0
                         /\ \/ b.breath = Null
                            \/ /\ b.breath[1].scale = <<1000, 1000>>
                               /\ b.breath[1].opacity = <<1000, 1000>>
                         /\ b.drift.speed = 0
                         /\ b.ease = Null]

classifyBlobStatic(b) ==
    LET noParallax == b.parallaxScale = 0
        noBreath == \/ b.breath = Null
                    \/ /\ b.breath[1].scale = <<1000, 1000>>
                       /\ b.breath[1].opacity = <<1000, 1000>>
        d == b.drift
        noDrift == d.speed = 0 /\ d.ax = 0 /\ d.ay = 0 /\ d.sx = 0 /\ d.sy = 0
    IN [b EXCEPT !.static = noParallax /\ noBreath /\ noDrift /\ b.ease = Null]

\* ----------------------------------------------------------- motion model
\* the centre before parallax and drift: the base centre, or the point the
\* active transition has reached
easedCenter(s, b) ==
    IF b.ease = Null THEN resolveCenter(b.center, Dims(s))
    ELSE [x |-> lerp(b.ease[1].from.x, b.ease[1].to.x, easeInOutQuad(b.ease[1].t)),
          y |-> lerp(b.ease[1].from.y, b.ease[1].to.y, easeInOutQuad(b.ease[1].t))]

blobStateNow(s, b, ts, parallaxPx) ==
    LET cx == easedCenter(s, b).x
        cy == easedCenter(s, b).y
        dx == (s.px * parallaxPx * b.parallaxScale) \div 1000
        dy == (s.py * parallaxPx * b.parallaxScale) \div 1000
        d == b.drift
        driftX == (Sin((ts * d.speed * 2) \div 25 + 662) * d.ax
                   + Sin((ts * d.speed) \div 25 + 357) * d.sx) \div 1000
        driftY == (Cos((ts * d.speed * 2) \div 25 + 458) * d.ay
                   + Cos((ts * d.speed * 6) \div 125 + 204) * d.sy) \div 1000
        p == IF b.breath = Null THEN 0
             ELSE Sin((ts * b.breath[1].speed * 2) \div 25 + b.breath[1].phase * 32)
        scaleMul == IF b.breath = Null THEN 1000
                    ELSE lerp(b.breath[1].scale[1], b.breath[1].scale[2], (p + 1000) \div 2)
        alphaMul == IF b.breath = Null THEN 1000
                    ELSE lerp(b.breath[1].opacity[1], b.breath[1].opacity[2], (p + 1000) \div 2)
    IN [cx |-> cx + dx + driftX, cy |-> cy + dy + driftY,
        scaleMul |-> scaleMul, alphaMul |-> alphaMul]

\* the rectangle a sprite drawn in present state st occupies
spriteRect(s, b, st) ==
    Rect(st.cx - ((b.sprite[1].size * st.scaleMul) \div (s.dpr * 1000)) \div 2,
         st.cy - ((b.sprite[1].size * st.scaleMul) \div (s.dpr * 1000)) \div 2,
         (b.sprite[1].size * st.scaleMul) \div (s.dpr * 1000),
         (b.sprite[1].size * st.scaleMul) \div (s.dpr * 1000))

blobRect(s, b, ts, parallaxPx) == spriteRect(s, b, blobStateNow(s, b, ts, parallaxPx))

\* s.parallaxVmax * (s.vMax / 100)
ParallaxPx(s) == (s.parallaxVmax * s.vMax) \div 100

\* ----------------------------------------------------------------- drawing
\* one drawImage call of _buildStaticLayer, in device pixels
staticDraw(s, b, base, sw) ==
    [id |-> b.id, sprite |-> b.sprite[1],
     x |-> (base.x - sw \div 2) * s.dpr,
     y |-> (base.y - sw \div 2) * s.dpr,
     w |-> sw * s.dpr, h |-> sw * s.dpr,
     alpha |-> (s.alpha * b.opacity) \div 100]

\* _buildStaticLayer: the drawImage calls that composite the static blobs
buildStaticLayer(e) ==
    IF ~e.staticCtx THEN e
    ELSE [e EXCEPT
            !.staticLayer.content =
                {staticDraw(e.state, e.blobs[i],
                            resolveCenter(e.blobs[i].center, Dims(e.state)),
                            e.blobs[i].sprite[1].size \div e.state.dpr) :
                    i \in {j \in 1..Len(e.blobs) :
                             e.blobs[j].static /\ e.blobs[j].sprite # Null}},
            !.needRebuildStatic = FALSE,
            !.counts.static = @ + 1]

\* one drawImage call of _drawDynamics, for a blob in present state st
dynamicDraw(s, b, st) ==
    [id |-> b.id, sprite |-> b.sprite[1], r |-> spriteRect(s, b, st),
     alpha |-> (s.alpha * b.opacity * st.alphaMul) \div 100000]

\* the blob is not skipped by _drawDynamics
IsDrawn(s, b, rect, limit) ==
    /\ ~b.static /\ b.sprite # Null
    /\ \/ limit = Null
       \/ \E k \in 1..Len(limit[1]) : intersect(limit[1][k], rect)

\* a drawing pass that evaluates the blobs one tick after the frame's timestamp
drawDynamicsLater(e, ts, limit) ==
    { dynamicDraw(e.state, e.blobs[i],
                  blobStateNow(e.state, e.blobs[i], ts + TickMs, ParallaxPx(e.state))) :
        i \in {j \in 1..Len(e.blobs) :
                 IsDrawn(e.state, e.blobs[j],
                         blobRect(e.state, e.blobs[j], ts + TickMs, ParallaxPx(e.state)),
                         limit)} }

\* _drawDynamics: the drawImage calls on the live surface, one per dynamic
\* blob (limit = Null), or per dynamic blob that meets a rectangle of limit
drawDynamics(e, ts, limit) ==
    { dynamicDraw(e.state, e.blobs[i],
                  blobStateNow(e.state, e.blobs[i], ts, ParallaxPx(e.state))) :
        i \in {j \in 1..Len(e.blobs) :
                 IsDrawn(e.state, e.blobs[j],
                         blobRect(e.state, e.blobs[j], ts, ParallaxPx(e.state)),
                         limit)} }

\* a rebuild of the static layer whatever the flag says
rebuildStaticAlways(e) == buildStaticLayer(e)

\* if (this._needRebuildStatic) this._buildStaticLayer()
ensureStatic(e) == IF e.needRebuildStatic THEN buildStaticLayer(e) ELSE e

\* _fullRedraw after the static layer was brought up to date: clear the live
\* surface, copy the static layer, draw every dynamic blob
paintAll(e, ts) ==
    IF ~e.ctx THEN e
    ELSE [e EXCEPT !.canvas.base = e.staticLayer.content,
                   !.canvas.dyn = drawDynamics(e, ts, Null),
                   !.canvas.stale = {},
                   !.canvas.repairs = {},
                   !.counts.full = @ + 1]

fullRedraw(e, ts) == paintAll(ensureStatic(e), ts)

\* what is on the live surface of the dynamic blobs' earlier drawing
Footprints(c) == {[id |-> d.id, r |-> d.r] : d \in c.dyn} \cup c.stale

\* the drawImage call that repairs the rectangle r: the source rectangle in
\* the static layer and the destination rectangle on the live surface, both
\* in device pixels, and the compositing operation in force
repairBlit(s, r) ==
    [rect |-> r,
     src |-> Rect(Max(0, r.x * s.dpr), Max(0, r.y * s.dpr), r.w * s.dpr, r.h * s.dpr),
     dst |-> Rect(r.x * s.dpr, r.y * s.dpr, r.w * s.dpr, r.h * s.dpr),
     op |-> "source-over"]

\* what a blit leaves on the surface of the footprints fs drawn earlier:
\* "copy" replaces the destination, every other operation draws over it, and
\* the static layer has no opaque pixel (it is cleared to transparent and
\* holds sprites of translucent gradients)
Remaining(fs, blits) ==
    {f \in fs : ~\E b \in blits : b.op = "copy" /\ Contains(b.rect, f.r)}

\* _redrawDirty: draw the static layer into each rectangle, then draw the
\* dynamic blobs that meet one.  What was drawn before and was not replaced
\* stays on the surface (stale).
redrawDirty(e, ts, rects) ==
    IF ~e.ctx THEN e
    ELSE [e EXCEPT !.canvas.repairs = {repairBlit(e.state, rects[k]) : k \in 1..Len(rects)},
                   !.canvas.dyn = drawDynamics(e, ts, Some(rects)),
                   !.canvas.stale =
                       Remaining(Footprints(e.canvas),
                                 {repairBlit(e.state, rects[k]) : k \in 1..Len(rects)})]

\* ------------------------------------------------------------- frame step
\* an advance that stops short of the end
advanceEaseStalls(b, dtMs) ==
    IF b.ease = Null THEN b
    ELSE [b EXCEPT !.ease[1].t =
             clamp(@ + clamp((dtMs * 1000) \div b.ease[1].durMs, 0, 1000), 0, 999)]

\* an advance that clears a finished transition and leaves the blob's class
\* as it was
advanceEaseKeepsClass(b, dtMs) ==
    IF b.ease = Null THEN b
    ELSE IF clamp(b.ease[1].t + clamp((dtMs * 1000) \div b.ease[1].durMs, 0, 1000),
                  0, 1000) >= 1000
    THEN [b EXCEPT !.ease = Null]
    ELSE [b EXCEPT !.ease[1].t =
             clamp(@ + clamp((dtMs * 1000) \div b.ease[1].durMs, 0, 1000), 0, 1000)]

\* an advance by a fixed 16 ms per callback, whatever time has passed
advanceEaseFixed(b, dtMs) ==
    IF b.ease = Null THEN b
    ELSE IF clamp(b.ease[1].t + clamp((16 * 1000) \div b.ease[1].durMs, 0, 1000),
                  0, 1000) >= 1000
    THEN classifyBlobStatic([b EXCEPT !.ease = Null])
    ELSE [b EXCEPT !.ease[1].t =
             clamp(@ + clamp((16 * 1000) \div b.ease[1].durMs, 0, 1000), 0, 1000)]

\* advance easing using real delta-time: the transition after dtMs
advanceEase(b, dtMs) ==
    IF b.ease = Null THEN b
    ELSE IF clamp(b.ease[1].t + clamp((dtMs * 1000) \div b.ease[1].durMs, 0, 1000),
                  0, 1000) >= 1000
    THEN classifyBlobStatic([b EXCEPT !.ease = Null])
    ELSE [b EXCEPT !.ease[1].t =
             clamp(@ + clamp((dtMs * 1000) \div b.ease[1].durMs, 0, 1000), 0, 1000)]

\* the rectangles one blob adds to the dirty list
dirtyOf(b, nowRect, pad) ==
    (IF b.lastRect = Null THEN <<>> ELSE <<inflateRect(b.lastRect[1], pad)>>)
    \o <<inflateRect(nowRect, pad)>>

\* the body of _step's first loop for a dynamic blob b1 whose easing was advanced
measureBlob(b1, nowRect, pad) ==
    [b |-> [b1 EXCEPT !.nextRect = Some(nowRect)], dirty |-> dirtyOf(b1, nowRect, pad)]

\* the body of _step's first loop for one blob: the blob afterwards and the
\* rectangles it adds to the dirty list
stepBlob(s, b, ts, dtMs, pad, parallaxPx) ==
    IF b.static \/ b.sprite = Null THEN [b |-> b, dirty |-> <<>>]
    ELSE measureBlob(advanceEase(b, dtMs),
                     blobRect(s, advanceEase(b, dtMs), ts, parallaxPx), pad)

RECURSIVE Concat(_)
Concat(seqs) == IF seqs = <<>> THEN <<>> ELSE Head(seqs) \o Concat(Tail(seqs))

RECURSIVE SumArea(_)
SumArea(rects) ==
    IF rects = <<>> THEN 0
    ELSE Head(rects).w * Head(rects).h + SumArea(Tail(rects))

\* a decision that looks at the covered area alone
takesFullByArea(s, merged) ==
    SumArea(merged) * 100 > s.fullRedrawThreshold * (s.w * s.h)

\* merged.length > s.maxDirtyRects || cover > s.fullRedrawThreshold
TakesFullRedraw(s, merged) ==
    \/ Len(merged) > s.maxDirtyRects
    \/ SumArea(merged) * 100 > s.fullRedrawThreshold * (s.w * s.h)

\* the last loop of _step
commitRects(bs) ==
    [i \in 1..Len(bs) |->
        IF bs[i].static \/ bs[i].sprite = Null THEN bs[i]
        ELSE [bs[i] EXCEPT !.lastRect = bs[i].nextRect, !.nextRect = Null]]

\* Math.max(s.damagePaddingPx, s.blurPx * 1.5)
DamagePad(s) == Max(s.damagePaddingPx, (s.blurPx * 3) \div 2)

\* smooth pointer
smoothPointer(s) ==
    [s EXCEPT !.px = s.px + (s.tx - s.px) \div PointerLerpDiv,
              !.py = s.py + (s.ty - s.py) \div PointerLerpDiv]

\* on the patch path, the dynamic blobs of which the footprint on the live
\* surface or the present footprint does not lie inside the damage set
Missed(e, ts, merged) ==
    { e.blobs[i].id : i \in {j \in 1..Len(e.blobs) :
        /\ ~e.blobs[j].static /\ e.blobs[j].sprite # Null
        /\ \/ ~Covered(blobRect(e.state, e.blobs[j], ts, ParallaxPx(e.state)), merged)
           \/ \E d \in e.canvas.dyn : d.id = e.blobs[j].id /\ ~Covered(d.r, merged)} }

StepResult(e, path, merged, missed) ==
    [e |-> e, path |-> path, merged |-> merged, missed |-> missed]

\* _step from the choice between the full redraw and the patch on
stepPaint(e, ts, merged) ==
    IF TakesFullRedraw(e.state, merged)
    THEN StepResult([fullRedraw(e, ts) EXCEPT !.blobs = commitRects(@)],
                    "full", merged, {})
    ELSE StepResult([redrawDirty(e, ts, merged) EXCEPT !.blobs = commitRects(@)],
                    "patch", merged, Missed(e, ts, merged))

\* _step from the test of the dirty list on
stepDraw(e, ts, dirty) ==
    IF dirty = <<>>
    THEN IF e.needRebuildStatic
         THEN StepResult(fullRedraw(e, ts), "idlefull", <<>>, {})
         ELSE StepResult(e, "idle", <<>>, {})
    ELSE stepPaint(e, ts, mergeRects(dirty, MergeTolerance))

\* _step after its first loop, which gave res for the blobs
stepLooped(e, ts, res) ==
    stepDraw([e EXCEPT !.blobs = [i \in 1..Len(res) |-> res[i].b],
                       !.needRebuildStatic =
                           \/ @
                           \/ \E i \in 1..Len(res) :
                                 ~e.blobs[i].static /\ res[i].b.static],
             ts, Concat([i \in 1..Len(res) |-> res[i].dirty]))

\* _step from its first loop on
stepLoop(e, ts, dtMs) ==
    stepLooped(e, ts,
               [i \in 1..Len(e.blobs) |->
                   stepBlob(e.state, e.blobs[i], ts, dtMs, DamagePad(e.state),
                            ParallaxPx(e.state))])

\* _step: [e: the engine afterwards, path: what the step did, merged: the
\* damage set, missed: see Missed]
step(e, ts, dtMs) ==
    IF ~e.ctx THEN StepResult(e, "noctx", <<>>, {})
    ELSE stepLoop(ensureStatic([e EXCEPT !.state = smoothPointer(@)]), ts, dtMs)

\* ---------------------------------------------------------------- scheduler
\* a start() that does not look at state.running
startAgain(e, t) ==
    IF ~e.ctx THEN [e EXCEPT !.halted = FALSE]
    ELSE [e EXCEPT !.state.running = TRUE,
                   !.lastFrameTs = t,
                   !.raf = requestAnimationFrame(e.raf),
                   !.halted = FALSE]

\* a start() that winds the frame clock back to its initial value
startFromZero(e, t) ==
    IF e.state.running \/ ~e.ctx THEN [e EXCEPT !.halted = FALSE]
    ELSE [e EXCEPT !.state.running = TRUE,
                   !.lastFrameTs = 0,
                   !.raf = requestAnimationFrame(e.raf),
                   !.halted = FALSE]

\* start(), called at time t
start(e, t) ==
    IF e.state.running \/ ~e.ctx THEN [e EXCEPT !.halted = FALSE]
    ELSE [e EXCEPT !.state.running = TRUE,
                   !.lastFrameTs = t,
                   !.raf = requestAnimationFrame(e.raf),
                   !.halted = FALSE]

\* a stop() that returns without touching the scheduler
stopIgnored(e) == [e EXCEPT !.halted = TRUE]

stop(e) ==
    [e EXCEPT !.state.running = FALSE,
              !.raf = cancelAnimationFrame(e.raf),
              !.halted = TRUE]

\* the frame is one the frame-rate cap skips
CapSkips(e, ts) ==
    e.state.fpsCap > 0 /\ (ts - e.lastFrameTs) * e.state.fpsCap < 1000

\* a _loop that accepts the timestamp before it consults the cap
loopStamped(e, ts) ==
    IF ~e.state.running
    THEN StepResult(e, "dead", <<>>, {})
    ELSE IF CapSkips(e, ts)
    THEN StepResult([e EXCEPT !.lastFrameTs = ts,
                              !.raf = requestAnimationFrame(@)], "skip", <<>>, {})
    ELSE [step([e EXCEPT !.lastFrameTs = ts], ts, Max(0, ts - e.lastFrameTs))
             EXCEPT !.e.raf = requestAnimationFrame(@)]

\* _loop(ts), entered by a callback that was already taken off the list
loop(e, ts) ==
    IF ~e.state.running
    THEN StepResult(e, "dead", <<>>, {})
    ELSE IF CapSkips(e, ts)
    THEN StepResult([e EXCEPT !.raf = requestAnimationFrame(@)], "skip", <<>>, {})
    ELSE [step([e EXCEPT !.lastFrameTs = ts], ts, Max(0, ts - e.lastFrameTs))
             EXCEPT !.e.raf = requestAnimationFrame(@)]

\* ------------------------------------------------------------ surface manager
\* _resize, with the window's present size, at time t
resized(e, s) ==
    [e EXCEPT !.state = s,
              !.canvas = [w |-> s.w * s.dpr, h |-> s.h * s.dpr, base |-> {},
                          dyn |-> {}, stale |-> {}, repairs |-> {}],
              !.staticLayer = [w |-> s.w * s.dpr, h |-> s.h * s.dpr, content |-> {}],
              !.blobs = rebuildSprites(s, e.blobs),
              !.needRebuildStatic = TRUE]

\* a _resize that leaves the drawing to the next frame
resizeNoRedraw(e, window, t) ==
    resized(e, [e.state EXCEPT !.w = window.w, !.h = window.h,
                               !.vMax = Max(window.w, window.h)])

resize(e, window, t) ==
    fullRedraw(resized(e, [e.state EXCEPT !.w = window.w, !.h = window.h,
                                          !.vMax = Max(window.w, window.h)]), t)

\* a destroy() that keeps the drawing contexts
destroyKeepsContext(e) ==
    [stop(e) EXCEPT !.listeners = {},
                    !.blobs = <<>>]

destroy(e) ==
    [stop(e) EXCEPT !.listeners = {},
                    !.blobs = <<>>,
                    !.ctx = FALSE,
                    !.staticCtx = FALSE]

setPointerTracking(e, enabled) ==
    IF enabled = e.pointerEnabled THEN e
    ELSE [e EXCEPT !.pointerEnabled = enabled,
                   !.listeners = IF enabled THEN @ \cup {"pointermove"}
                                 ELSE @ \ {"pointermove"}]

\* a visibility handler that only ever stops
onVisibilityStopOnly(e, isHidden, t) ==
    IF isHidden THEN stop(e) ELSE e

\* this._onVisibility
onVisibility(e, isHidden, t) ==
    IF isHidden THEN stop(e)
    ELSE IF ~e.state.prefersReduce THEN start(e, t)
    ELSE e

\* ------------------------------------------------------------ blob registry
\* `b${++this._idSeq}`
GenId(n) == <<"b1", "b2", "b3", "b4">>[n]

addBlob(e, cfg) ==
    LET seq == IF cfg.id = Null THEN e.idSeq + 1 ELSE e.idSeq
        id == IF cfg.id = Null THEN GenId(seq) ELSE cfg.id[1]
        dr == cfg.drift
        blob == [ id |-> id,
                  diameter |-> cfg.diameter,
                  center |-> cfg.center,
                  layers |-> cfg.layers,
                  opacity |-> Opt(cfg.opacity, 100),
                  parallaxScale |-> Opt(cfg.parallaxScale, 1),
                  drift |-> [ ax |-> IF dr = Null THEN 2 ELSE Opt(dr[1].ax, 2),
                              ay |-> IF dr = Null THEN 1 ELSE Opt(dr[1].ay, 1),
                              sx |-> IF dr = Null THEN 1 ELSE Opt(dr[1].sx, 1),
                              sy |-> IF dr = Null THEN 1 ELSE Opt(dr[1].sy, 1),
                              speed |-> IF dr = Null THEN 1 ELSE Opt(dr[1].speed, 1) ],
                  breath |-> IF cfg.breath = Null THEN Null
                             ELSE Some([ scale |-> Opt(cfg.breath[1].scale, <<1000, 1000>>),
                                         opacity |-> Opt(cfg.breath[1].opacity, <<1000, 1000>>),
                                         speed |-> Opt(cfg.breath[1].speed, 1),
                                         phase |-> Opt(cfg.breath[1].phase, 0) ]),
                  sprite |-> Null,
                  diamPx |-> 0,
                  ease |-> Null,
                  lastRect |-> Null,
                  nextRect |-> Null,
                  static |-> FALSE ]
    IN [e EXCEPT !.idSeq = seq,
                 !.blobs = MapSet(e.blobs, classifyBlobStatic(rebuildSprite(e.state, blob))),
                 !.needRebuildStatic = TRUE]

\* a patch holds Null for a property it leaves undefined; patch.breath is
\* Some(Null) for breath: null
updateBlob(e, id, patch) ==
    IF ~Has(e.blobs, id) THEN e
    ELSE
    LET b == Get(e.blobs, id)
        needSprite == patch.diameter # Null \/ patch.layers # Null
        affectsStatic == \/ patch.center # Null \/ patch.opacity # Null
                         \/ patch.parallaxScale # Null
                         \/ patch.drift # Null \/ patch.breath # Null
        b1 == [b EXCEPT
                 !.diameter = Opt(patch.diameter, @),
                 !.layers = Opt(patch.layers, @),
                 !.center = Opt(patch.center, @),
                 !.opacity = Opt(patch.opacity, @),
                 !.parallaxScale = Opt(patch.parallaxScale, @),
                 !.drift = IF patch.drift = Null THEN @
                           ELSE [ ax |-> Opt(patch.drift[1].ax, @.ax),
                                  ay |-> Opt(patch.drift[1].ay, @.ay),
                                  sx |-> Opt(patch.drift[1].sx, @.sx),
                                  sy |-> Opt(patch.drift[1].sy, @.sy),
                                  speed |-> Opt(patch.drift[1].speed, @.speed) ],
                 !.breath = IF patch.breath = Null THEN @
                            ELSE IF patch.breath[1] = Null THEN Null
                            ELSE Some([ scale |-> Opt(patch.breath[1][1].scale, <<1000, 1000>>),
                                        opacity |-> Opt(patch.breath[1][1].opacity, <<1000, 1000>>),
                                        speed |-> Opt(patch.breath[1][1].speed, 1),
                                        phase |-> Opt(patch.breath[1][1].phase, 0) ])]
        b2 == IF needSprite THEN rebuildSprite(e.state, b1) ELSE b1
        b3 == IF affectsStatic THEN classifyBlobStatic(b2) ELSE b2
    IN [e EXCEPT !.blobs = MapSet(e.blobs, b3),
                 !.needRebuildStatic = @ \/ needSprite \/ affectsStatic]

\* a removeBlob that marks the static layer dirty before it looks the id up
removeBlobEager(e, id) ==
    [e EXCEPT !.blobs = IF Has(e.blobs, id) THEN MapDelete(e.blobs, id) ELSE @,
              !.needRebuildStatic = TRUE]

removeBlob(e, id) ==
    IF ~Has(e.blobs, id) THEN e
    ELSE [e EXCEPT !.blobs = MapDelete(e.blobs, id), !.needRebuildStatic = TRUE]

clearBlobs(e) == [e EXCEPT !.blobs = <<>>, !.needRebuildStatic = TRUE]

\* an easeTo that leaves the static flag as it finds it
easeToKeepsFlag(e, id, toCenter, durationMs) ==
    IF ~Has(e.blobs, id) THEN e
    ELSE [e EXCEPT !.blobs = MapSet(e.blobs,
             [Get(e.blobs, id) EXCEPT
                 !.ease = Some([from |-> resolveCenter(Get(e.blobs, id).center,
                                                       Dims(e.state)),
                                to |-> [x |-> unitToPx(toCenter.x, Dims(e.state), "x"),
                                        y |-> unitToPx(toCenter.y, Dims(e.state), "y")],
                                t |-> 0, durMs |-> Max(1, durationMs)])])]

easeTo(e, id, toCenter, durationMs) ==
    IF ~Has(e.blobs, id) THEN e
    ELSE
    LET b == Get(e.blobs, id)
        dims == Dims(e.state)
        from == resolveCenter(b.center, dims)
        to == [x |-> unitToPx(toCenter.x, dims, "x"),
               y |-> unitToPx(toCenter.y, dims, "y")]
        b1 == [b EXCEPT !.ease = Some([from |-> from, to |-> to, t |-> 0,
                                       durMs |-> Max(1, durationMs)]),
                        !.static = FALSE]
    IN [e EXCEPT !.blobs = MapSet(e.blobs, b1),
                 !.needRebuildStatic = @ \/ b.static]

\* a rebuildAll that pads the sprite it finds instead of painting a new one
rebuildAllPadding(e) ==
    [e EXCEPT !.blobs = [i \in 1..Len(e.blobs) |->
                           IF e.blobs[i].sprite = Null THEN e.blobs[i]
                           ELSE [e.blobs[i] EXCEPT !.sprite[1].size =
                                    @ + (e.state.blurPx * e.state.dpr) * 2]],
              !.needRebuildStatic = TRUE]

rebuildAll(e) ==
    [e EXCEPT !.blobs = rebuildSprites(e.state, e.blobs), !.needRebuildStatic = TRUE]

\* a setBlurPx that only stores the radius
setBlurPxOnly(e, px) == [e EXCEPT !.state.blurPx = Max(0, px)]

setBlurPx(e, px) == rebuildAll([e EXCEPT !.state.blurPx = Max(0, px)])
setAlpha(e, a) == [e EXCEPT !.state.alpha = clamp(a, 0, 100)]
setComposite(e, op) == [e EXCEPT !.state.composite = op]
setParallax(e, v) == [e EXCEPT !.state.parallaxVmax = Max(0, v)]
setFpsCap(e, v) == [e EXCEPT !.state.fpsCap = Max(0, v)]

\* this._onPointerMove
onPointerMove(e, window, clientX, clientY) ==
    IF ~e.pointerEnabled THEN e
    ELSE LET vw == IF window.w = 0 THEN 1 ELSE window.w
             vh == IF window.h = 0 THEN 1 ELSE window.h
         IN [e EXCEPT !.state.tx = (clientX * 2000) \div vw - 1000,
                      !.state.ty = (clientY * 2000) \div vh - 1000]

\* ------------------------------------------------------------- constructor
\* the object before the constructor body: the field initialisers
Fresh ==
    [ state |-> [ w |-> 0, h |-> 0, vMax |-> 0, dpr |-> 1, alpha |-> 0,
                  blurPx |-> 0, composite |-> "source-over", parallaxVmax |-> 0,
                  fpsCap |-> 0, px |-> 0, py |-> 0, tx |-> 0, ty |-> 0,
                  running |-> FALSE, prefersReduce |-> FALSE,
                  damagePaddingPx |-> 0, fullRedrawThreshold |-> 0,
                  maxDirtyRects |-> 0 ],
      blobs |-> <<>>, idSeq |-> 0, needRebuildStatic |-> TRUE,
      raf |-> [live |-> FALSE, orphans |-> 0], lastFrameTs |-> 0,
      pointerEnabled |-> TRUE, ctx |-> FALSE, staticCtx |-> FALSE,
      listeners |-> {},
      canvas |-> [w |-> 0, h |-> 0, base |-> {}, dyn |-> {}, stale |-> {},
                  repairs |-> {}],
      staticLayer |-> [w |-> 0, h |-> 0, content |-> {}],
      counts |-> [full |-> 0, static |-> 0],
      halted |-> FALSE ]

\* if (opts.autoStart ?? !prefersReduce) this.start(); else this._fullRedraw(...)
startOrPaint(e, auto, t) == IF auto THEN start(e, t) ELSE fullRedraw(e, t)

\* new FluidBackground(canvas, opts) with a canvas, at time t
constructor(opts, window, ratio, reduce, t) ==
    LET e0 == [Fresh EXCEPT
                 !.ctx = TRUE,
                 !.staticCtx = TRUE,
                 !.state = [ w |-> 0, h |-> 0, vMax |-> 0,
                             dpr |-> clamp(IF ratio = 0 THEN 1 ELSE ratio, 1,
                                           Opt(opts.maxDpr, DefaultMaxDpr)),
                             alpha |-> opts.alpha,
                             blurPx |-> opts.blurPx,
                             composite |-> "source-over",
                             parallaxVmax |-> opts.parallaxVmax,
                             fpsCap |-> Opt(opts.fpsCap, 0),
                             px |-> 0, py |-> 0, tx |-> 0, ty |-> 0,
                             running |-> FALSE,
                             prefersReduce |-> reduce,
                             damagePaddingPx |-> DefaultDamagePaddingPx,
                             fullRedrawThreshold |->
                                 clamp(DefaultFullRedrawThreshold, 10, 100),
                             maxDirtyRects |->
                                 Opt(opts.maxDirtyRects, DefaultMaxDirtyRects) ],
                 !.listeners = {"resize", "visibilitychange"}
                               \cup (IF opts.pointerTracking # Some(FALSE)
                                     THEN {"pointermove"} ELSE {}),
                 !.pointerEnabled = (opts.pointerTracking # Some(FALSE))]
    IN startOrPaint(resize(e0, window, t), Opt(opts.autoStart, ~reduce), t)

\* a constructor that subscribes its listeners before it looks at the canvas
newSubscribesFirst(hasCanvas, opts, window, ratio, reduce, t) ==
    IF ~hasCanvas
    THEN [threw |-> TRUE,
          e |-> [Fresh EXCEPT !.listeners = {"resize", "visibilitychange"}]]
    ELSE [threw |-> FALSE, e |-> constructor(opts, window, ratio, reduce, t)]

\* new FluidBackground(canvas, opts): whether it threw, and the object (of a
\* constructor that threw: the object as the field initialisers left it)
newFluidBackground(hasCanvas, opts, window, ratio, reduce, t) ==
    IF ~hasCanvas
    THEN [threw |-> TRUE, e |-> Fresh]
    ELSE [threw |-> FALSE, e |-> constructor(opts, window, ratio, reduce, t)]

\* ------------------------------------------------------ the untyped variant
\* The engine as the untyped file has it.  Its constructor, addBlob, easeTo,
\* _resize, _buildStaticLayer, _fullRedraw and _redrawDirty are statement for
\* statement those above; start() leaves state.lastTs alone, _step takes no
\* delta-time, and _blobStateNow moves the transition on each time it is
\* called.  lastFrameTs stands for state.lastTs.

\* b._ease.t = clamp(b._ease.t + (16 / b._ease.dur), 0, 1)
easeBumped(b) ==
    IF b.ease = Null THEN b
    ELSE [b EXCEPT !.ease[1].t = clamp(@ + (16 * 1000) \div b.ease[1].durMs, 0, 1000)]

\* if (b._ease.t >= 1) { b._ease = null; this._classifyBlobStatic(b) ... }
easeSettled(b) ==
    IF b.ease # Null /\ b.ease[1].t >= 1000
    THEN classifyBlobStatic([b EXCEPT !.ease = Null])
    ELSE b

\* one call of _blobStateNow: the blob afterwards and the state returned (the
\* centre is taken from the transition before it is cleared)
blobStateNowJs(s, b, ts, parallaxPx) ==
    [b |-> easeSettled(easeBumped(b)),
     st |-> Some(blobStateNow(s, easeBumped(b), ts, parallaxPx))]

\* one pass over the registry that calls _blobStateNow for every blob that is
\* neither static nor without a sprite (the first loop of _step, and
\* _drawDynamics)
visitBlobs(e, ts) ==
    [i \in 1..Len(e.blobs) |->
        IF e.blobs[i].static \/ e.blobs[i].sprite = Null
        THEN [b |-> e.blobs[i], st |-> Null]
        ELSE blobStateNowJs(e.state, e.blobs[i], ts, ParallaxPx(e.state))]

\* the engine after such a pass: the transitions moved on, and
\* this._needRebuildStatic = this._needRebuildStatic || b._static
visited(e, vs) ==
    [e EXCEPT !.blobs = [i \in 1..Len(vs) |-> vs[i].b],
              !.needRebuildStatic =
                  \/ @
                  \/ \E i \in 1..Len(vs) : ~e.blobs[i].static /\ vs[i].b.static]

\* the drawImage calls of _drawDynamics, given what its pass returned
drawnJs(e, vs, limit) ==
    { dynamicDraw(e.state, e.blobs[i], vs[i].st[1]) :
        i \in {j \in 1..Len(vs) :
                 /\ vs[j].st # Null
                 /\ \/ limit = Null
                    \/ \E k \in 1..Len(limit[1]) :
                          intersect(limit[1][k],
                                    spriteRect(e.state, e.blobs[j], vs[j].st[1]))} }

\* _fullRedraw after the static layer was brought up to date
paintAllJs(e, vs) ==
    IF ~e.ctx THEN e
    ELSE [visited(e, vs) EXCEPT !.canvas.base = e.staticLayer.content,
                                !.canvas.dyn = drawnJs(e, vs, Null),
                                !.canvas.stale = {},
                                !.canvas.repairs = {},
                                !.counts.full = @ + 1]

fullRedrawJs(e, ts) == paintAllJs(ensureStatic(e), visitBlobs(e, ts))

redrawDirtyJs(e, rects, vs) ==
    IF ~e.ctx THEN e
    ELSE [visited(e, vs) EXCEPT
             !.canvas.repairs = {repairBlit(e.state, rects[k]) : k \in 1..Len(rects)},
             !.canvas.dyn = drawnJs(e, vs, Some(rects)),
             !.canvas.stale =
                 Remaining(Footprints(e.canvas),
                           {repairBlit(e.state, rects[k]) : k \in 1..Len(rects)})]

\* _step from the choice between the full redraw and the patch on
stepPaintJs(e, ts, merged) ==
    IF TakesFullRedraw(e.state, merged)
    THEN StepResult([fullRedrawJs(e, ts) EXCEPT !.blobs = commitRects(@)],
                    "full", merged, {})
    ELSE StepResult([redrawDirtyJs(e, merged, visitBlobs(e, ts))
                        EXCEPT !.blobs = commitRects(@)],
                    "patch", merged, {})

\* _step from the test of the dirty list on
stepDrawJs(e, ts, dirty) ==
    IF dirty = <<>>
    THEN IF e.needRebuildStatic
         THEN StepResult(fullRedrawJs(e, ts), "idlefull", <<>>, {})
         ELSE StepResult(e, "idle", <<>>, {})
    ELSE stepPaintJs(e, ts, mergeRects(dirty, MergeTolerance))

\* the first loop of _step, given what its pass vs returned: b._nextRect and
\* the dirty list
stepLoopedJs(e, ts, vs) ==
    stepDrawJs(
        [visited(e, vs) EXCEPT
            !.blobs = [i \in 1..Len(vs) |->
                          IF vs[i].st = Null THEN @[i]
                          ELSE [@[i] EXCEPT !.nextRect =
                                   Some(spriteRect(e.state, e.blobs[i], vs[i].st[1]))]]],
        ts,
        Concat([i \in 1..Len(vs) |->
                   IF vs[i].st = Null THEN <<>>
                   ELSE dirtyOf(e.blobs[i],
                                spriteRect(e.state, e.blobs[i], vs[i].st[1]),
                                DamagePad(e.state))]))

\* _step(ts)
stepJs(e, ts) ==
    IF ~e.ctx THEN StepResult(e, "noctx", <<>>, {})
    ELSE stepLoopedJs(ensureStatic([e EXCEPT !.state = smoothPointer(@)]), ts,
                      visitBlobs(ensureStatic([e EXCEPT !.state = smoothPointer(@)]), ts))

\* _loop(ts): state.lastTs is written under a cap alone
loopJs(e, ts) ==
    IF ~e.state.running
    THEN StepResult(e, "dead", <<>>, {})
    ELSE IF CapSkips(e, ts)
    THEN StepResult([e EXCEPT !.raf = requestAnimationFrame(@)], "skip", <<>>, {})
    ELSE [stepJs([e EXCEPT !.lastFrameTs = IF e.state.fpsCap > 0 THEN ts ELSE @], ts)
             EXCEPT !.e.raf = requestAnimationFrame(@)]

\* new FluidBackground(canvas, opts) with a canvas: every pointermove is
\* followed, and start() does not write state.lastTs
constructorJs(opts, window, ratio, reduce, t) ==
    [constructor([opts EXCEPT !.pointerTracking = Null], window, ratio, reduce, t)
        EXCEPT !.lastFrameTs = 0]

\* ------------------------------------------------------------------ inputs
\* the host environments the engine is constructed in
Environments ==
    { [win |-> [w |-> 200, h |-> 100], ratio |-> 1, reduce |-> FALSE],
      [win |-> [w |-> 100, h |-> 200], ratio |-> 3, reduce |-> FALSE],
      [win |-> [w |-> 200, h |-> 100], ratio |-> 1, reduce |-> TRUE] }
Windows == { [w |-> 200, h |-> 100], [w |-> 100, h |-> 200] }
FpsCaps == {0, 4}
BlurChoices == {16}
AlphaChoices == {100}
ParallaxChoices == {0}
Composites == {"lighter"}
FrameTicks == {1, 2}
EaseDurations == {250, 500}
BlobIds == {"b1", "b2"}

Middle == [fn |-> FALSE, x |-> Str(50, "%"), y |-> Str(50, "%")]
Corner == [fn |-> FALSE, x |-> Str(10, "%"), y |-> Str(10, "%")]
Computed == [fn |-> TRUE, x |-> Num(0), y |-> Num(0)]

NoDrift == [ax |-> Some(0), ay |-> Some(0), sx |-> Some(0), sy |-> Some(0),
            speed |-> Some(0)]
Sway == [ax |-> Some(30), ay |-> Null, sx |-> Null, sy |-> Null,
         speed |-> Some(40)]
Nudge == [ax |-> Some(30), ay |-> Null, sx |-> Null, sy |-> Null,
          speed |-> Null]
Identity == [scale |-> Null, opacity |-> Null, speed |-> Null, phase |-> Null]
Pulse == [scale |-> Some(<<900, 1100>>), opacity |-> Null, speed |-> Some(40),
          phase |-> Null]

\* the blob configurations addBlob is called with
StillCfg(id) ==
    [ id |-> id, diameter |-> Str(50, "%"), center |-> Middle, layers |-> "L1",
      opacity |-> Null, parallaxScale |-> Some(0), drift |-> Some(NoDrift),
      breath |-> Some(Identity) ]
PlainCfg(id) ==
    [ id |-> id, diameter |-> Str(16, "vmax"), center |-> Corner, layers |-> "L1",
      opacity |-> Null, parallaxScale |-> Null, drift |-> Null, breath |-> Null ]
LivelyCfg(id) ==
    [ id |-> id, diameter |-> Num(32), center |-> Computed, layers |-> "L2",
      opacity |-> Some(90), parallaxScale |-> Some(2), drift |-> Some(Sway),
      breath |-> Some(Pulse) ]
Configs ==
    { StillCfg(Null), StillCfg(Some("b1")), PlainCfg(Null), LivelyCfg(Some("b1")) }

\* a blob that moves with the pointer alone, at a given centre
ApartCfg(id, x, y) ==
    [ id |-> Some(id), diameter |-> Num(32),
      center |-> [fn |-> FALSE, x |-> Str(x, "%"), y |-> Str(y, "%")],
      layers |-> "L1", opacity |-> Null, parallaxScale |-> Null,
      drift |-> Some(NoDrift), breath |-> Null ]
\* the configurations of a pair: the blob of the corner, one far below it,
\* one a little to its right
PairConfigs == { PlainCfg(Null), ApartCfg("below", 10, 90), ApartCfg("beside", 37, 10) }

\* the patches updateBlob is called with
NoPatch ==
    [ diameter |-> Null, layers |-> Null, center |-> Null, opacity |-> Null,
      parallaxScale |-> Null, drift |-> Null, breath |-> Null ]
Patches ==
    { [NoPatch EXCEPT !.diameter = Some(Num(40)), !.layers = Some("L2")],
      [NoPatch EXCEPT !.center = Some(Corner)],
      [NoPatch EXCEPT !.opacity = Some(50)],
      [NoPatch EXCEPT !.parallaxScale = Some(1)],
      [NoPatch EXCEPT !.drift = Some(Nudge)],
      [NoPatch EXCEPT !.parallaxScale = Some(0), !.drift = Some(NoDrift),
                      !.breath = Some(Null)] }

NoOptions ==
    [ autoStart |-> Null, pointerTracking |-> Null, fpsCap |-> Null,
      maxDpr |-> Null, maxDirtyRects |-> Null, alpha |-> 50, blurPx |-> 0,
      parallaxVmax |-> 10 ]
Options ==
    { NoOptions,
      [NoOptions EXCEPT !.autoStart = Some(FALSE)],
      [NoOptions EXCEPT !.autoStart = Some(TRUE), !.fpsCap = Some(4)],
      [NoOptions EXCEPT !.pointerTracking = Some(FALSE),
                        !.maxDirtyRects = Some(0)] }

\* -------------------------------------------------------------------- Init
InitVars(budget, ticks) ==
    /\ phase = "none"
    /\ state = Fresh.state
    /\ blobs = Fresh.blobs
    /\ idSeq = Fresh.idSeq
    /\ needRebuildStatic = Fresh.needRebuildStatic
    /\ raf = Fresh.raf
    /\ lastFrameTs = Fresh.lastFrameTs
    /\ pointerEnabled = Fresh.pointerEnabled
    /\ ctx = Fresh.ctx
    /\ staticCtx = Fresh.staticCtx
    /\ listeners = Fresh.listeners
    /\ canvas = Fresh.canvas
    /\ staticLayer = Fresh.staticLayer
    /\ counts = Fresh.counts
    /\ halted = Fresh.halted
    /\ \E env \in Environments :
          /\ win = env.win
          /\ devicePixelRatio = env.ratio
          /\ prefersReduce = env.reduce
    /\ hidden = FALSE
    /\ now = 0
    /\ disposed = FALSE
    /\ quiet = "no"
    /\ ops = budget
    /\ horizon = ticks
    /\ wasRunning = FALSE
    /\ last = [op |-> "none", id |-> "", path |-> "", missed |-> {}]

InitFor(budget, ticks) == InitVars(budget, ticks) /\ probe = Null

InitWith(budget) == InitFor(budget, MaxTicks)

Init == InitWith(MaxOps)

Env == << win, devicePixelRatio, prefersReduce, hidden, now, horizon, probe,
         wasRunning >>

Did(op, id) == [op |-> op, id |-> id, path |-> "", missed |-> {}]

\* a host call: a method of the constructed object returned e
Call(op, id, e) ==
    /\ phase = "live"
    /\ ops > 0
    /\ Commit(e)
    /\ ops' = ops - 1
    /\ last' = Did(op, id)
    /\ disposed' = (disposed \/ op = "destroy")
    /\ quiet' = "no"
    /\ UNCHANGED << phase, Env >>

\* ----------------------------------------------------------------- actions
\* the constructor returned or threw: r
Built(r, opts) ==
    /\ phase' = IF r.threw THEN "threw" ELSE "live"
    /\ last' = Did(IF r.threw THEN "throw" ELSE "new", "")
    /\ quiet' = IF r.threw THEN "no"
                ELSE IF opts.autoStart = Null THEN "default" ELSE "explicit"
    /\ Commit(r.e)

Construct ==
    /\ phase = "none"
    /\ \E hasCanvas \in BOOLEAN, opts \in Options :
          Built(newFluidBackground(hasCanvas, opts, win, devicePixelRatio,
                                   prefersReduce, now), opts)
    /\ UNCHANGED << Env, disposed, ops >>

Start == Call("start", "", start(Self, now))
Stop == Call("stop", "", stop(Self))
Destroy == Call("destroy", "", destroy(Self))
SetFpsCap == \E v \in FpsCaps : Call("setFpsCap", "", setFpsCap(Self, v))
SetParallax == \E v \in ParallaxChoices : Call("setParallax", "", setParallax(Self, v))
SetPointerTracking ==
    \E on \in BOOLEAN : Call("setPointerTracking", "", setPointerTracking(Self, on))
SetBlurPx == \E v \in BlurChoices : Call("setBlurPx", "", setBlurPx(Self, v))
SetAlpha == \E v \in AlphaChoices : Call("setAlpha", "", setAlpha(Self, v))
SetComposite ==
    \E v \in Composites : Call("setComposite", "", setComposite(Self, v))
RebuildAll == Call("rebuildAll", "", rebuildAll(Self))

AddBlob ==
    \E cfg \in Configs :
       /\ cfg.id = Null => idSeq < MaxIdSeq
       /\ Call("addBlob", IF cfg.id = Null THEN GenId(idSeq + 1) ELSE cfg.id[1],
               addBlob(Self, cfg))
UpdateBlob ==
    \E id \in BlobIds, patch \in Patches : Call("updateBlob", id, updateBlob(Self, id, patch))
RemoveBlob == \E id \in BlobIds : Call("removeBlob", id, removeBlob(Self, id))
ClearBlobs == Call("clearBlobs", "", clearBlobs(Self))
AddApart ==
    \E cfg \in PairConfigs :
       /\ cfg.id = Null => idSeq < MaxIdSeq
       /\ Call("addBlob", IF cfg.id = Null THEN GenId(idSeq + 1) ELSE cfg.id[1],
               addBlob(Self, cfg))
EaseTo ==
    \E id \in BlobIds, dur \in EaseDurations :
       Call("easeTo", id, easeTo(Self, id, Corner, dur))

\* the window fires "resize" with a new size
Resize ==
    /\ phase = "live" /\ ops > 0
    /\ "resize" \in listeners
    /\ \E w2 \in Windows \ {win} :
          /\ win' = w2
          /\ Commit(resize(Self, w2, now))
    /\ ops' = ops - 1
    /\ last' = Did("resize", "")
    /\ quiet' = "no"
    /\ UNCHANGED << phase, devicePixelRatio, prefersReduce, hidden, now, disposed,
                    horizon, probe, wasRunning >>

\* the window fires "pointermove"
PointerMove ==
    /\ "pointermove" \in listeners
    /\ \E pt \in {<<0, 0>>, <<win.w, win.h \div 2>>} :
          Call("pointermove", "", onPointerMove(Self, win, pt[1], pt[2]))

\* the document fires "visibilitychange"
Visibility ==
    /\ phase = "live" /\ ops > 0
    /\ "visibilitychange" \in listeners
    /\ hidden' = ~hidden
    /\ Commit(onVisibility(Self, ~hidden, now))
    /\ ops' = ops - 1
    /\ last' = Did(IF hidden THEN "visible" ELSE "hidden", "")
    /\ wasRunning' = IF hidden THEN wasRunning ELSE state.running
    /\ UNCHANGED << phase, win, devicePixelRatio, prefersReduce, now, disposed, quiet,
                    horizon, probe >>

\* the frame callback returned r
Ran(r) ==
    /\ Commit(r.e)
    /\ last' = [op |-> "frame", id |-> "", path |-> r.path, missed |-> r.missed]

\* the browser runs one pending frame callback, with the timestamp of a
\* later frame
Frame ==
    /\ phase = "live"
    /\ \E d \in FrameTicks, which \in {"live", "orphan"} :
          /\ now + d * TickMs <= horizon * TickMs
          /\ which = "live" => raf.live
          /\ which = "orphan" => raf.orphans > 0
          /\ Ran(loop([Self EXCEPT !.raf = IF which = "live"
                                           THEN [raf EXCEPT !.live = FALSE]
                                           ELSE [raf EXCEPT !.orphans = @ - 1]],
                       now + d * TickMs))
          /\ now' = now + d * TickMs
    /\ UNCHANGED << phase, win, devicePixelRatio, prefersReduce, hidden, disposed,
                    quiet, ops, horizon, probe, wasRunning >>

\* time passes with no callback run
Tick ==
    /\ phase = "live"
    /\ now + TickMs <= horizon * TickMs
    /\ now' = now + TickMs
    /\ last' = Did("tick", "")
    /\ UNCHANGED << phase, state, blobs, idSeq, needRebuildStatic, raf, lastFrameTs,
                    pointerEnabled, ctx, staticCtx, listeners, canvas, staticLayer,
                    counts, halted, win, devicePixelRatio, prefersReduce, hidden,
                    disposed, quiet, ops, horizon, probe, wasRunning >>

Next ==
    \/ Construct
    \/ Start
    \/ Stop
    \/ Destroy
    \/ SetFpsCap
    \/ SetParallax
    \/ SetPointerTracking
    \/ SetBlurPx
    \/ SetAlpha
    \/ SetComposite
    \/ RebuildAll
    \/ AddBlob
    \/ UpdateBlob
    \/ RemoveBlob
    \/ ClearBlobs
    \/ EaseTo
    \/ Resize
    \/ PointerMove
    \/ Visibility
    \/ Frame
    \/ Tick

Spec == Init /\ [][Next]_vars

\* the scheduler and the listeners alone, over longer runs
InitSched == InitWith(MaxSchedOps)
NextSched ==
    \/ Construct
    \/ Start
    \/ Stop
    \/ Destroy
    \/ SetFpsCap
    \/ SetPointerTracking
    \/ PointerMove
    \/ Visibility
    \/ Frame
    \/ Tick
SpecSched == InitSched /\ [][NextSched]_vars

\* the blob registry and the frame step alone, over longer runs
InitBlobs == InitWith(MaxBlobOps)
NextBlobs ==
    \/ Construct
    \/ AddBlob
    \/ UpdateBlob
    \/ RemoveBlob
    \/ ClearBlobs
    \/ EaseTo
    \/ Frame
SpecBlobs == InitBlobs /\ [][NextBlobs]_vars

\* one transition from its start to its end
InitEase == InitFor(MaxEaseOps, MaxEaseTicks)
NextEase ==
    \/ Construct
    \/ AddBlob
    \/ EaseTo
    \/ Frame
SpecEase == InitEase /\ [][NextEase]_vars

\* the same under the browser's scheduling: a frame callback that was
\* requested is run.  Frame is the one action of NextEase that moves the
\* clock and it is enabled whenever a callback is pending and the run has
\* time left, so its fairness is stated on the clock's steps.
FrameRuns ==
    /\ phase = "live"
    /\ raf.live \/ raf.orphans > 0
    /\ now' \in {now + d * TickMs : d \in FrameTicks}
    /\ now' <= horizon * TickMs
SpecEaseLive == InitEase /\ [][NextEase]_vars /\ WF_now(FrameRuns)

\* a transition, the frames that follow and one more call
SpecRestart == InitFor(MaxBlobOps, MaxEaseTicks) /\ [][NextEase]_vars

\* blobs of both classes, a change of the global alpha and the frames around it
NextAlpha ==
    \/ Construct
    \/ AddBlob
    \/ SetAlpha
    \/ Frame
SpecAlpha == InitBlobs /\ [][NextAlpha]_vars

\* two blobs side by side or apart, and the frames that follow
InitPair == InitFor(MaxPairOps, MaxPairTicks)
NextPair ==
    \/ Construct
    \/ AddApart
    \/ Frame
SpecPair == InitPair /\ [][NextPair]_vars

\* the untyped variant: one transition and the frames that follow
ConstructJs ==
    /\ phase = "none"
    /\ \E opts \in Options :
          Built([threw |-> FALSE,
                 e |-> constructorJs(opts, win, devicePixelRatio, prefersReduce, now)],
                opts)
    /\ UNCHANGED << Env, disposed, ops >>
FrameJs ==
    /\ phase = "live"
    /\ \E d \in FrameTicks, which \in {"live", "orphan"} :
          /\ now + d * TickMs <= horizon * TickMs
          /\ which = "live" => raf.live
          /\ which = "orphan" => raf.orphans > 0
          /\ Ran(loopJs([Self EXCEPT !.raf = IF which = "live"
                                             THEN [raf EXCEPT !.live = FALSE]
                                             ELSE [raf EXCEPT !.orphans = @ - 1]],
                        now + d * TickMs))
          /\ now' = now + d * TickMs
    /\ UNCHANGED << phase, win, devicePixelRatio, prefersReduce, hidden, disposed,
                    quiet, ops, horizon, probe, wasRunning >>
NextJs ==
    \/ ConstructJs
    \/ AddBlob
    \/ EaseTo
    \/ FrameJs
SpecJs == InitEase /\ [][NextJs]_vars

\* ------------------------------------------------- the unit resolver alone
\* the values unitToPx is called with: raw numbers, and strings given by
\* what parseFloat makes of them and by their suffix ("garbage" is
\* Str(NaN, ""), "px" is Str(NaN, "px"), "abc%" is Str(NaN, "%"))
UnitValues ==
    {Num(n) : n \in {0, 50, 150}}
    \cup {Str(n, u) : n \in {NaN, 0, 50, 150}, u \in {"", "px", "%", "vw", "vh", "vmax"}}

\* the engine is not constructed; the dimensions are the window's
InitUnits ==
    /\ InitVars(0, 0)
    /\ \E v \in UnitValues, axis \in {"x", "y", "vmax"} :
          probe = [fn |-> "unitToPx", v |-> v,
                   dims |-> [w |-> win.w, h |-> win.h, vMax |-> Max(win.w, win.h)],
                   axis |-> axis, out |-> Null]
\* unitToPx(v, dims, axis) returns
Resolve ==
    /\ probe.fn = "unitToPx" /\ probe.out = Null
    /\ probe' = [probe EXCEPT !.out = Some(unitToPx(probe.v, probe.dims, probe.axis))]
    /\ UNCHANGED << phase, state, blobs, idSeq, needRebuildStatic, raf, lastFrameTs,
                    pointerEnabled, ctx, staticCtx, listeners, canvas, staticLayer,
                    counts, halted, win, devicePixelRatio, prefersReduce, hidden,
                    now, disposed, quiet, ops, horizon, wasRunning, last >>
NextUnits == Resolve
SpecUnits == InitUnits /\ [][NextUnits]_vars

\* ------------------------------------------------------ mergeRects alone
\* the rectangles the lists are made of: a bar along the top, a bar down the
\* left, a small square in the corner the two bars leave free, a square that
\* overlaps the top bar and one far from all of them
RectPool ==
    { Rect(0, 0, 10, 4), Rect(0, 4, 4, 10), Rect(8, 10, 2, 2), Rect(8, 2, 6, 6),
      Rect(40, 40, 5, 5) }
RectLists == UNION {[1..n -> RectPool] : n \in 0..MaxRects}

InitMerge ==
    /\ InitVars(0, 0)
    /\ \E rects \in RectLists :
          probe = [fn |-> "mergeRects", rects |-> rects, out |-> Null]
\* mergeRects(rects, 2) returns
Merge ==
    /\ probe.fn = "mergeRects" /\ probe.out = Null
    /\ probe' = [probe EXCEPT !.out = Some(mergeRects(probe.rects, MergeTolerance))]
    /\ UNCHANGED << phase, state, blobs, idSeq, needRebuildStatic, raf, lastFrameTs,
                    pointerEnabled, ctx, staticCtx, listeners, canvas, staticLayer,
                    counts, halted, win, devicePixelRatio, prefersReduce, hidden,
                    now, disposed, quiet, ops, horizon, wasRunning, last >>
NextMerge == Merge
SpecMerge == InitMerge /\ [][NextMerge]_vars

\* ================================================================== claims
IsFrame == last'.op = "frame" /\ now' # now
SteppedNext == IsFrame /\ last'.path \in {"idle", "idlefull", "full", "patch"}

\* C1: in every frame step that takes the patch path, each dynamic blob's
\* footprint on the live surface and its present footprint lie inside the
\* damage set
C1_NoStalePixels ==
    (last.op = "frame" /\ last.path = "patch") => last.missed = {}

\* C2: at most one frame callback is pending, and one is pending exactly when
\* the engine is running; start() on a stopped engine that was not disposed
\* leaves it running, stop() leaves it stopped
C2_OnePendingIffRunning ==
    phase = "live" =>
        /\ raf.orphans = 0
        /\ raf.live <=> state.running
        /\ (last.op = "start" /\ ~disposed) => state.running
        /\ last.op = "stop" => ~state.running
C2_Witness ==
    /\ last.op = "start" /\ state.running /\ raf.live /\ now > 0
    /\ lastFrameTs = now /\ counts.full > 1

\* C3: once stop() has returned and until start() is called, no frame
\* callback runs a step
C3_NoStepAfterStop == [][halted => ~SteppedNext]_vars
C3_Witness ==
    /\ halted /\ last.op = "tick" /\ ~state.running /\ ~disposed
    /\ lastFrameTs > 0 /\ lastFrameTs < now

\* C4: after destroy() the engine is never running and no frame callback is
\* pending
C4_DisposalIsTerminal ==
    disposed => ~state.running /\ Pending(raf) = 0
C4_Witness == disposed /\ last.op = "start" /\ ~state.running

\* C5: after destroy() none of the engine's listeners is subscribed
C5_ListenersReleased == disposed => listeners = {}

\* C6: a change to hidden stops the scheduler; a change to visible restarts
\* it unless the reduced-motion preference is active
C6_VisibilityStopsAndRestarts ==
    /\ last.op = "hidden" => ~state.running /\ Pending(raf) = 0
    /\ (last.op = "visible" /\ ~prefersReduce) => state.running /\ raf.live
C6_Witness ==
    /\ last.op = "visible" /\ ~prefersReduce /\ state.running /\ raf.live
    /\ lastFrameTs = now /\ now > 0

\* C7: under the reduced-motion preference, after construction (autoStart
\* not given) and any visibility changes the engine is stopped, no callback
\* is pending and exactly one full redraw was painted
C7_ReducedMotionOneFrame ==
    (prefersReduce /\ quiet = "default") =>
        ~state.running /\ Pending(raf) = 0 /\ counts.full = 1

\* C8: a callback the frame-rate cap rejects reschedules itself and changes
\* nothing else
C8_CappedFrameDoesNoWork ==
    [][(IsFrame /\ state.running /\ state.fpsCap > 0
          /\ (now' - lastFrameTs) * state.fpsCap < 1000)
       => /\ raf'.live
          /\ UNCHANGED << state, blobs, needRebuildStatic, lastFrameTs, canvas,
                          staticLayer >>]_vars
C8_Witness ==
    /\ last.op = "frame" /\ last.path = "skip"
    /\ state.tx # state.px
    /\ \E i \in 1..Len(blobs) : ~blobs[i].static
    /\ needRebuildStatic

\* C9: updateBlob, removeBlob and easeTo with an identifier that is not
\* registered change nothing
C9_UnknownIdIsNoOp ==
    [][(last'.op \in {"updateBlob", "removeBlob", "easeTo"} /\ ops' # ops
          /\ ~Has(blobs, last'.id))
       => UNCHANGED << state, blobs, idSeq, needRebuildStatic, raf, lastFrameTs,
                       pointerEnabled, ctx, staticCtx, listeners, canvas,
                       staticLayer >>]_vars
C9_Witness ==
    /\ last.op \in {"updateBlob", "removeBlob", "easeTo"}
    /\ ~Has(blobs, last.id)
    /\ Len(blobs) > 0
    /\ ~needRebuildStatic

\* C10: a registered blob's static flag is set exactly when its parallax
\* scale is zero, it has no breathing or both breathing ranges are [1, 1],
\* its drift amplitudes and speed are zero and no transition is active
C10_StaticFlagMatches ==
    \A i \in 1..Len(blobs) :
        blobs[i].static <=>
            /\ blobs[i].parallaxScale = 0
            /\ \/ blobs[i].breath = Null
               \/ /\ blobs[i].breath[1].scale[1] = 1000
                  /\ blobs[i].breath[1].scale[2] = 1000
                  /\ blobs[i].breath[1].opacity[1] = 1000
                  /\ blobs[i].breath[1].opacity[2] = 1000
            /\ blobs[i].drift.ax = 0 /\ blobs[i].drift.ay = 0
            /\ blobs[i].drift.sx = 0 /\ blobs[i].drift.sy = 0
            /\ blobs[i].drift.speed = 0
            /\ blobs[i].ease = Null
C10_Witness ==
    /\ last.op = "frame"
    /\ \E i \in 1..Len(blobs) :
          blobs[i].static /\ blobs[i].breath # Null /\ blobs[i].lastRect # Null

\* C11: easeTo on a registered blob leaves it dynamic with the transition at
\* fraction 0; no blob is static while its transition is active; a blob in
\* transition becomes static only in a frame step that brings the elapsed
\* fraction to 1
C11_EaseKeepsDynamic ==
    [][/\ (last'.op = "easeTo" /\ ops' # ops /\ Has(blobs, last'.id))
          => /\ ~Get(blobs', last'.id).static
             /\ Get(blobs', last'.id).ease # Null
             /\ Get(blobs', last'.id).ease[1].t = 0
       /\ \A i \in 1..Len(blobs') : blobs'[i].ease # Null => ~blobs'[i].static
       /\ \A id \in (Ids(blobs) \cap Ids(blobs')) :
             (Get(blobs, id).ease # Null /\ Get(blobs', id).static
                /\ last'.op # "addBlob")
             => /\ IsFrame
                /\ Get(blobs, id).ease[1].t
                     + ((now' - lastFrameTs) * 1000) \div Get(blobs, id).ease[1].durMs
                   >= 1000]_vars
C11_Witness ==
    /\ last.op = "frame"
    /\ \E i \in 1..Len(blobs) :
          blobs[i].static /\ blobs[i].nextRect # Null /\ blobs[i].opacity = 50

\* C12: a transition of 500 ms stepped every 125 ms: the step that brings the
\* elapsed fraction from 0.75 to 1 samples the blob's eased centre on the
\* destination
C12_LandsOnDestination ==
    [][SteppedNext =>
          \A id \in (Ids(blobs) \cap Ids(blobs')) :
             (/\ Get(blobs, id).ease # Null
              /\ Get(blobs, id).ease[1].durMs = 500
              /\ Get(blobs, id).ease[1].t = 750
              /\ now' - lastFrameTs = 125)
             => easedCenter(state', Get(blobs', id)) = Get(blobs, id).ease[1].to]_vars

\* the square of the distance between two points
Dist2(p, q) == (p.x - q.x) * (p.x - q.x) + (p.y - q.y) * (p.y - q.y)

\* C13: from one frame step to the next the eased centre of a blob in
\* transition does not move away from the destination
C13_ApproachesMonotonically ==
    [][SteppedNext =>
          \A id \in (Ids(blobs) \cap Ids(blobs')) :
             Get(blobs, id).ease # Null
             => Dist2(easedCenter(state', Get(blobs', id)), Get(blobs, id).ease[1].to)
                <= Dist2(easedCenter(state, Get(blobs, id)), Get(blobs, id).ease[1].to)]_vars

\* the damage set of the frame step this transition takes
FrameDamage ==
    step([Self EXCEPT !.lastFrameTs = now'], now', Max(0, now' - lastFrameTs)).merged

\* C14: a frame step with a dirty rectangle takes the full redraw exactly when
\* the merged rectangles are more than maxDirtyRects or cover more than
\* fullRedrawThreshold of the surface, and the patch otherwise; the full
\* redraw runs on the one path and not on the other
C14_FullOrPatch ==
    [][(SteppedNext /\ state.running) =>
          /\ last'.path \in {"full", "patch"} <=> FrameDamage # <<>>
          /\ last'.path = "full" <=>
                /\ FrameDamage # <<>>
                /\ \/ Len(FrameDamage) > state.maxDirtyRects
                   \/ SumArea(FrameDamage) * 100
                         > state.fullRedrawThreshold * (state.w * state.h)
          /\ last'.path = "full" => counts'.full = counts.full + 1
          /\ last'.path = "patch" => counts'.full = counts.full]_vars
C14_Witness ==
    /\ last.op = "frame" /\ last.path = "full"
    /\ state.maxDirtyRects = 0
    /\ \E i \in 1..Len(blobs) :
          /\ blobs[i].lastRect # Null
          /\ blobs[i].lastRect[1].w * blobs[i].lastRect[1].h * 4 < state.w * state.h

\* the static layer holds what a rebuild from the present blobs would give
StaticLayerFresh ==
    staticLayer.content = buildStaticLayer(Self).staticLayer.content

\* C15: a frame that draws, and the redraw of a resize or of construction,
\* draws from a static layer that holds the present static blobs with their
\* present position, opacity and sprite
C15_StaticLayerRebuiltBeforeUse ==
    (\/ last.op = "frame" /\ last.path \in {"full", "patch", "idlefull"}
     \/ last.op \in {"new", "resize"})
    => StaticLayerFresh

\* the static layer holds a composite of the blob id
Composited(layer, id) == \E d \in layer.content : d.id = id

\* C16: with one registered blob, which is static: a frame step composites
\* the static layer once when the layer does not hold the blob yet, and a
\* frame step that follows a frame step with the blob in the layer does not
\* rebuild the layer
C16_OneStaticComposite ==
    [][(SteppedNext /\ Len(blobs) = 1 /\ blobs[1].static /\ blobs[1].sprite # Null) =>
          /\ ~Composited(staticLayer, blobs[1].id)
                => /\ counts'.static = counts.static + 1
                   /\ Composited(staticLayer', blobs[1].id)
          /\ (/\ Composited(staticLayer, blobs[1].id)
              /\ last.op = "frame"
              /\ last.path \in {"idle", "idlefull", "full", "patch"})
                => /\ counts'.static = counts.static
                   /\ staticLayer' = staticLayer]_vars
C16_Witness ==
    /\ last.op = "frame" /\ last.path = "idle"
    /\ Len(blobs) = 1 /\ blobs[1].static
    /\ Composited(staticLayer, blobs[1].id)
    /\ counts.static = 2
    /\ state.running /\ now = 3 * TickMs

\* C17: every registered blob's sprite was built from the blob's present
\* diameter and layers and the engine's present blur radius, pixel density
\* and viewport dimensions
C17_SpritesCurrent ==
    \A i \in 1..Len(blobs) :
       /\ blobs[i].sprite # Null
       /\ blobs[i].sprite[1].layers = blobs[i].layers
       /\ blobs[i].sprite[1].blurPx = state.blurPx
       /\ blobs[i].sprite[1].dpr = state.dpr
       /\ blobs[i].sprite[1].diamPx
             = Max(MinDiamPx, unitToPx(blobs[i].diameter,
                                       [w |-> state.w, h |-> state.h,
                                        vMax |-> state.vMax], "vmax"))
       /\ blobs[i].sprite[1].size
             = blobs[i].sprite[1].diamPx * state.dpr + state.blurPx * state.dpr * 2
C17_Witness ==
    /\ last.op = "frame" /\ last.path \in {"full", "patch"}
    /\ state.blurPx = 16
    /\ \E i \in 1..Len(blobs) : blobs[i].sprite[1].blurPx = 16

\* C18: the live surface and the static layer have the same size, the
\* viewport's times the pixel density; a resize rebuilds every sprite and
\* paints one full redraw from a rebuilt static layer, running or stopped
C18_SurfacesSizedAndRedrawn ==
    [][/\ (phase' = "live" /\ ~disposed')
          => /\ canvas'.w = win'.w * state'.dpr /\ canvas'.h = win'.h * state'.dpr
             /\ staticLayer'.w = canvas'.w /\ staticLayer'.h = canvas'.h
             /\ state'.w = win'.w /\ state'.h = win'.h
       /\ (last'.op = "resize" /\ ops' # ops)
          => /\ counts'.full = counts.full + 1
             /\ counts'.static = counts.static + 1
             /\ \A i \in 1..Len(blobs) :
                   blobs'[i].sprite = rebuildSprite(state', blobs[i]).sprite
             /\ StaticLayerFresh'
             /\ canvas'.base = staticLayer'.content
             /\ canvas'.stale = {}
             /\ {d.id : d \in canvas'.dyn}
                  = {blobs'[i].id : i \in {j \in 1..Len(blobs') : ~blobs'[j].static}}
             /\ state'.running = state.running]_vars
C18_Witness ==
    /\ last.op = "resize" /\ ~state.running
    /\ canvas.w = win.w * state.dpr /\ canvas.h = win.h * state.dpr
    /\ canvas.dyn # {}
    /\ counts.full = 3

\* C19: addBlob returns an identifier no registered blob had and the
\* registry grows by one blob
C19_IdsUnique ==
    [][(last'.op = "addBlob" /\ ops' # ops)
       => /\ ~Has(blobs, last'.id)
          /\ Has(blobs', last'.id)
          /\ Len(blobs') = Len(blobs) + 1]_vars

\* C20: a blob registered with its optional parameters omitted has opacity 1,
\* parallax scale 1, drift amplitudes 0 and no breathing
C20_OmittedDefaults ==
    [][(last'.op = "addBlob" /\ ops' # ops /\ idSeq' # idSeq
          /\ Get(blobs', last'.id).diameter = PlainCfg(Null).diameter)
       => /\ Get(blobs', last'.id).opacity = 100
          /\ Get(blobs', last'.id).parallaxScale = 1
          /\ Get(blobs', last'.id).breath = Null
          /\ Get(blobs', last'.id).drift.ax = 0
          /\ Get(blobs', last'.id).drift.ay = 0
          /\ Get(blobs', last'.id).drift.sx = 0
          /\ Get(blobs', last'.id).drift.sy = 0]_vars

\* the blob was registered with diameter "50%", centre ("50%", "50%"), no
\* parallax, no drift and no breathing, and is not in transition
IsStill(b) ==
    /\ b.diameter = Str(50, "%") /\ b.center = Middle
    /\ b.parallaxScale = 0
    /\ b.drift = [ax |-> 0, ay |-> 0, sx |-> 0, sy |-> 0, speed |-> 0]
    /\ (b.breath = Null \/ (b.breath[1].scale = <<1000, 1000>>
                              /\ b.breath[1].opacity = <<1000, 1000>>))
    /\ b.ease = Null

\* C21: on a 200x100 surface at density 1 such a blob has a diameter of
\* 100 px and a sprite of 100 px plus the blur padding on both sides, is
\* static, and its composite in an up-to-date static layer is that square
\* centred on (100, 50)
C21_StillBlobResolved ==
    (phase = "live" /\ state.w = 200 /\ state.h = 100 /\ state.dpr = 1) =>
        \A i \in 1..Len(blobs) :
           IsStill(blobs[i]) =>
              /\ blobs[i].diamPx = 100
              /\ blobs[i].sprite # Null
              /\ blobs[i].sprite[1].size = 100 + 2 * state.blurPx
              /\ blobs[i].static
              /\ (~needRebuildStatic /\ staticCtx) =>
                    \E d \in staticLayer.content :
                       /\ d.id = blobs[i].id
                       /\ d.w = 100 + 2 * state.blurPx /\ d.h = d.w
                       /\ 2 * d.x + d.w = 2 * 100
                       /\ 2 * d.y + d.h = 2 * 50
C21_Witness ==
    /\ last.op = "frame" /\ last.path = "idle"
    /\ state.w = 200 /\ state.h = 100 /\ state.dpr = 1 /\ state.blurPx = 16
    /\ \E i \in 1..Len(blobs) :
          /\ IsStill(blobs[i]) /\ blobs[i].sprite[1].size = 132
          /\ Composited(staticLayer, blobs[i].id)

\* C22: a diameter given in a relative unit resolves to that proportion of the
\* larger viewport dimension (the floor of MinDiamPx applied afterwards)
C22_DiameterAgainstVmax ==
    \A i \in 1..Len(blobs) :
       blobs[i].diameter.u \in {"%", "vw", "vh", "vmax"} =>
          blobs[i].diamPx
             = Max(MinDiamPx, (Max(state.w, state.h) * blobs[i].diameter.n) \div 100)

\* C23: a string of which the numeric part cannot be parsed resolves to 0,
\* with or without a unit suffix
C23_UnparsableIsZero ==
    (probe # Null /\ probe.fn = "unitToPx" /\ probe.out # Null
       /\ probe.v.u # "num" /\ probe.v.n = NaN)
    => probe.out[1] = 0

\* C24: a constructor called without a canvas throws and leaves nothing
\* behind: no listener, no frame callback, no drawing surface, no context,
\* and the engine never runs afterwards
C24_NoCanvasFailsFast ==
    phase = "threw" =>
        /\ last.op = "throw"
        /\ listeners = {}
        /\ Pending(raf) = 0
        /\ ~state.running
        /\ ~ctx /\ ~staticCtx
        /\ staticLayer = Fresh.staticLayer
        /\ canvas = Fresh.canvas
        /\ counts = Fresh.counts
C24_Witness == phase = "threw" /\ last.op = "throw" /\ now = 0 /\ listeners = {}

\* C25: a rebuildAll() that directly follows a rebuildAll() (the one of
\* setBlurPx included) changes no sprite and nothing else of the engine
C25_RebuildAllIdempotent ==
    (last.op \in {"rebuildAll", "setBlurPx"}) => rebuildAll(Self) = Self
C25_Witness ==
    /\ last.op = "rebuildAll" /\ needRebuildStatic
    /\ counts.static = 2
    /\ \E i \in 1..Len(blobs) : blobs[i].sprite # Null /\ blobs[i].static

\* what addBlob and updateBlob set of a blob: the parameters the motion
\* model reads, without the fields the frame step itself maintains
Parameters(b) ==
    [b EXCEPT !.ease = Null, !.static = FALSE, !.lastRect = Null, !.nextRect = Null]

\* C26: in a frame step that draws, the evaluation behind a blob's damage
\* rectangle and the one behind its drawing agree (the rectangle kept for the
\* next frame is the rectangle drawn, the alpha drawn is the one the motion
\* model gives for the frame's time), and the step changes no parameter of a
\* blob and nothing of the engine's settings but the smoothed pointer
C26_EvaluationIsPure ==
    [][(SteppedNext /\ last'.path \in {"full", "patch"}) =>
          /\ \A d \in canvas'.dyn :
                /\ Has(blobs', d.id)
                /\ Get(blobs', d.id).lastRect = Some(d.r)
                /\ d = dynamicDraw(state', Get(blobs', d.id),
                                   blobStateNow(state', Get(blobs', d.id), now',
                                                ParallaxPx(state')))
          /\ \A i \in 1..Len(blobs') :
                (~blobs'[i].static /\ blobs'[i].sprite # Null)
                => \E d \in canvas'.dyn : d.id = blobs'[i].id
          /\ Len(blobs') = Len(blobs)
          /\ \A i \in 1..Len(blobs) : Parameters(blobs'[i]) = Parameters(blobs[i])
          /\ [state' EXCEPT !.px = 0, !.py = 0] = [state EXCEPT !.px = 0, !.py = 0]]_vars
C26_Witness ==
    /\ last.op = "frame" /\ last.path = "patch" /\ now >= 2 * TickMs
    /\ \E d \in canvas.dyn :
          /\ Get(blobs, d.id).lastRect = Some(d.r)
          /\ Get(blobs, d.id).breath # Null
          /\ Get(blobs, d.id).drift.speed > 0
          /\ d.r.w # Get(blobs, d.id).sprite[1].size \div state.dpr

\* how far two rectangles are apart: the larger of the horizontal and the
\* vertical distance between them (negative when they overlap on both axes)
Gap(a, b) ==
    Max(Max(b.x - (a.x + a.w), a.x - (b.x + b.w)),
        Max(b.y - (a.y + a.h), a.y - (b.y + b.h)))

\* a blob's footprints of the frame step this transition takes: the previous
\* one, if any, and the present one
FootprintsOf(i) ==
    (IF blobs[i].lastRect = Null THEN {} ELSE {blobs[i].lastRect[1]})
    \cup {blobs'[i].lastRect[1]}

\* two dynamic blobs are registered and every footprint of the one is farther
\* than dist from every footprint of the other
TwoApart(dist) ==
    /\ Len(blobs) = 2 /\ Len(blobs') = 2
    /\ \A i \in 1..2 : /\ ~blobs[i].static /\ ~blobs'[i].static
                         /\ blobs[i].sprite # Null /\ blobs'[i].lastRect # Null
    /\ \A ra \in FootprintsOf(1), rb \in FootprintsOf(2) : Gap(ra, rb) > dist

C28_RepairRestoresBackground ==
    (last.op = "frame" /\ last.path = "patch") =>
        /\ \A b \in canvas.repairs : b.src = b.dst
        /\ \A b \in canvas.repairs, f \in canvas.stale : ~intersect(b.rect, f.r)

\* C29: no two rectangles mergeRects returns overlap or are close enough for
\* the merge to unite them
C29_MergeReachesFixedPoint ==
    (probe # Null /\ probe.fn = "mergeRects" /\ probe.out # Null) =>
        \A i, j \in 1..Len(probe.out[1]) :
           i # j => ~intersect(inflateRect(probe.out[1][i], MergeTolerance),
                               inflateRect(probe.out[1][j], MergeTolerance))

\* C30: after a frame step that drew (patch or full redraw), every registered
\* blob with a sprite is either in the static layer the frame was drawn from
\* or was drawn by the dynamic pass, and not both
C30_EachBlobDrawnOnce ==
    (last.op = "frame" /\ last.path \in {"full", "patch"}) =>
        \A i \in 1..Len(blobs) :
           blobs[i].sprite # Null =>
              (Composited(staticLayer, blobs[i].id)
                 <=> ~\E d \in canvas.dyn : d.id = blobs[i].id)

\* C31: while the engine is running, a frame step that finds no dynamic blob
\* to draw leaves the live surface showing the static layer as it was last
\* rebuilt (every later frame of such an engine does the same as this one, so
\* what is not on the surface by then never gets there)
C31_StaticChangeReachesSurface ==
    (last.op = "frame" /\ last.path \in {"idle", "idlefull"} /\ state.running) =>
        canvas.base = staticLayer.content

\* a frame step that found nothing to draw is followed by frame steps that
\* find nothing to draw and leave the live surface as it is
IdleStaysIdle ==
    [][(last.op = "frame" /\ last.path = "idle" /\ SteppedNext) =>
          (last'.path = "idle" /\ canvas' = canvas)]_vars

\* C32: while the engine is running, a frame step that finds no dynamic blob
\* to draw leaves on the live surface no drawing of a blob that is no longer
\* registered
C32_RemovedBlobErased ==
    (last.op = "frame" /\ last.path \in {"idle", "idlefull"} /\ state.running) =>
        \A f \in Footprints(canvas) : Has(blobs, f.id)

\* the time an active transition has run, and its fraction (Null: no
\* transition) once d more milliseconds have run
Elapsed(b) == (b.ease[1].t * b.ease[1].durMs) \div 1000
FractionOf(b) == IF b.ease = Null THEN Null ELSE Some(b.ease[1].t)
FractionAfter(b, d) ==
    IF Elapsed(b) + d >= b.ease[1].durMs THEN Null
    ELSE Some(((Elapsed(b) + d) * 1000) \div b.ease[1].durMs)

\* C33: a frame callback that runs a step moves every active transition on by
\* the time since the last accepted frame (or since start), so that its
\* elapsed time is the sum of the accepted frames' delta-times and its
\* fraction min(1, elapsed / duration); a callback the frame-rate cap skips
\* leaves the fraction alone and its time goes to the next accepted frame
C33_EaseFollowsElapsedTime ==
    [][\A id \in BlobIds :
          (IsFrame /\ Has(blobs, id) /\ Get(blobs, id).ease # Null) =>
             /\ Has(blobs', id)
             /\ FractionOf(Get(blobs', id)) =
                   IF SteppedNext
                   THEN FractionAfter(Get(blobs, id), now' - lastFrameTs)
                   ELSE FractionOf(Get(blobs, id))]_vars
\* under a cap of 4 frames a second the callback at 125 ms was skipped and the
\* frame at 375 ms took a 500 ms transition to three quarters
C33_Witness ==
    /\ last.op = "frame" /\ last.path \in {"full", "patch"}
    /\ state.fpsCap = 4 /\ now = 3 * TickMs /\ lastFrameTs = now
    /\ \E i \in 1..Len(blobs) :
          /\ blobs[i].ease # Null
          /\ blobs[i].ease[1].durMs = 500 /\ blobs[i].ease[1].t = 750

\* C34: in the untyped variant a frame callback that runs a step moves every
\* active transition on by one increment of 16 / duration, and the rectangle
\* the step records for the blob is the rectangle it drew the blob at
C34_OneIncrementPerStep ==
    [][\A id \in BlobIds :
          (SteppedNext /\ Has(blobs, id) /\ Get(blobs, id).ease # Null) =>
             /\ Has(blobs', id)
             /\ FractionOf(Get(blobs', id)) = FractionOf(easeSettled(easeBumped(Get(blobs, id))))
             /\ \A d \in canvas'.dyn :
                   d.id = id => Get(blobs', id).lastRect = Some(d.r)]_vars

\* the rule of an active transition over one step, for the blob of one id:
\* afterwards an active transition has a fraction in [0,1) and its blob is
\* dynamic; the fraction of a transition active before and after is not
\* smaller afterwards (restarts: or the step is an easeTo for this blob); and
\* a frame step that takes the fraction to 1 clears the transition and gives
\* the blob the class its parameters ask for
EaseRule(id, restarts) ==
    /\ (Has(blobs', id) /\ Get(blobs', id).ease # Null) =>
          /\ Get(blobs', id).ease[1].t \in 0..999
          /\ ~Get(blobs', id).static
    /\ (Has(blobs, id) /\ Get(blobs, id).ease # Null
          /\ Has(blobs', id) /\ Get(blobs', id).ease # Null) =>
          \/ Get(blobs', id).ease[1].t >= Get(blobs, id).ease[1].t
          \/ restarts /\ last'.op = "easeTo" /\ last'.id = id /\ ops' = ops - 1
    /\ (SteppedNext /\ Has(blobs, id) /\ Get(blobs, id).ease # Null
          /\ FractionAfter(Get(blobs, id), now' - lastFrameTs) = Null) =>
          /\ Has(blobs', id)
          /\ Get(blobs', id).ease = Null
          /\ Get(blobs', id).static = classifyBlobStatic(Get(blobs', id)).static

\* C35: between frames every active transition has a fraction in [0,1) that
\* never decreases and its blob is dynamic; the step in which the fraction
\* reaches 1 clears the transition and classifies the blob anew
C35_FractionNeverDecreases ==
    [][\A id \in BlobIds : EaseRule(id, FALSE)]_vars
\* C35, amended: the same, but for an easeTo issued for a blob whose
\* transition is active, which starts the new transition at 0
C35_FractionNeverDecreases_Amended ==
    [][\A id \in BlobIds : EaseRule(id, TRUE)]_vars
\* a frame step finished a transition and the blob went to the static class
C35_Witness ==
    /\ last.op = "frame" /\ last.path \in {"full", "patch"}
    /\ \E i \in 1..Len(blobs) :
          blobs[i].static /\ blobs[i].ease = Null /\ blobs[i].nextRect # Null

\* the longest time the frame-rate cap keeps a callback from being accepted
CapInterval(s) == IF s.fpsCap > 0 THEN 1000 \div s.fpsCap ELSE 0
\* the blob of this id has a transition under way on a running engine, the host
\* makes no further call, and the frames still to come span the rest of the
\* transition's duration and one interval of the cap
EaseDue(id) ==
    /\ phase = "live" /\ state.running /\ ops = 0
    /\ Has(blobs, id) /\ Get(blobs, id).ease # Null
    /\ lastFrameTs + (Get(blobs, id).ease[1].durMs - Elapsed(Get(blobs, id)))
          + CapInterval(state) <= horizon * TickMs
EaseDone(id) == Has(blobs, id) /\ Get(blobs, id).ease = Null

\* C36: on an engine that keeps running, a transition that easeTo started and
\* that is neither replaced nor removed completes: its fraction reaches 1 and
\* it is cleared
C36_TransitionCompletes ==
    \A id \in BlobIds : EaseDue(id) ~> EaseDone(id)
\* under a cap of 4 frames a second a transition has run to its end after the
\* host's last call
C36_Witness ==
    /\ last.op = "frame" /\ ops = 0 /\ state.running /\ state.fpsCap = 4
    /\ now = horizon * TickMs
    /\ \E i \in 1..Len(blobs) : blobs[i].ease = Null /\ blobs[i].nextRect # Null

\* C37: the stamp of the last accepted frame never goes back (start() moves
\* it forward to the present), a frame callback that runs a step takes the
\* stamp, and under a cap of n frames a second it runs a step only 1000 / n ms
\* or more after the stamp: two accepted frames in a row are that far apart,
\* whatever stop, start, hide and show came between them
C37_CapSpacing ==
    [][/\ lastFrameTs' >= lastFrameTs
       /\ SteppedNext =>
             /\ lastFrameTs' = now'
             /\ state.fpsCap > 0 => (now' - lastFrameTs) * state.fpsCap >= 1000]_vars
\* under a cap of 4 frames a second a step ran at 375 ms: the engine was
\* started anew at 125 ms, or the cap was set after the frame at 125 ms
C37_Witness ==
    /\ last.op = "frame" /\ last.path \in {"idle", "idlefull", "full", "patch"}
    /\ state.fpsCap = 4 /\ now = 3 * TickMs /\ lastFrameTs = now /\ blobs = <<>>

\* C38: after a frame step that drew (patch or full redraw), every blob in the
\* static layer the frame drew from was composited with the present global
\* alpha times its opacity, and so was every blob of the dynamic pass
C38_AlphaReachesEveryBlob ==
    (last.op = "frame" /\ last.path \in {"full", "patch"}) =>
        /\ \A d \in staticLayer.content :
              Has(blobs, d.id) =>
                 d.alpha = (state.alpha * Get(blobs, d.id).opacity) \div 100
        /\ \A d \in canvas.dyn :
              Has(blobs, d.id) =>
                 d.alpha = dynamicDraw(state, Get(blobs, d.id),
                                       blobStateNow(state, Get(blobs, d.id), now,
                                                    ParallaxPx(state))).alpha

\* C39: when the document has become visible again, the engine is running
\* only if it was running when the document was hidden
C39_StoppedStaysStopped ==
    last.op = "visible" => (state.running => wasRunning)

\* mergeRects returned: every rectangle of the input lies inside a rectangle
\* of the output, and the output is no longer than the input
NoDamageLost ==
    /\ \A i \in 1..Len(probe.rects) :
          \E j \in 1..Len(probe.out[1]) : Contains(probe.out[1][j], probe.rects[i])
    /\ Len(probe.out[1]) <= Len(probe.rects)

====
